---- MODULE Spec2Model ----
(***************************************************************************)
(* A model of the initial-dataset access layer of KoordinatesDataset       *)
(* (src/src/index.ts, lines 1-619): getInitialDatasetInBatch,              *)
(* getInitialDatasetCount, downloadInitialDatasetFromS3, waitForFile,      *)
(* readCSVInBatches, getRecordCount and csvToJson.                         *)
(*                                                                         *)
(* A file is the sequence of the lines readline delivers for it; a line is *)
(* a sequence of one-character strings.  Node's event loop is modelled by  *)
(* one action per callback: every action below is one synchronous run of   *)
(* the code between two awaits or one invocation of an event listener.     *)
(***************************************************************************)
EXTENDS Integers, Sequences, FiniteSets, TLC

\* ------------------------------------------------------------------------
\* Bounds of the model
\* ------------------------------------------------------------------------
MaxLines == 3
MaxStart == 2
MaxPolls == 1

\* ------------------------------------------------------------------------
\* Program constants
\* ------------------------------------------------------------------------
MaxBatch == 100000
FILE_WRITE_TIMEOUT == 300000
PollInterval == 2000

Calls == {1, 2}

\* The calls of readCSVInBatches / getRecordCount that can be in flight: one
\* per public call, and a third for a call repeated after the other two.
ReaderCalls == Calls \cup {3}

Min(a, b) == IF a < b THEN a ELSE b
Max(a, b) == IF a > b THEN a ELSE b

\* ------------------------------------------------------------------------
\* Characters and lines
\* ------------------------------------------------------------------------
Q  == "\""
D  == ","
NL == "\n"

EmptyLine  == << >>
HeaderLine == <<"h", D, "k">>
RowLine    == <<"1", D, "a">>
QuotedLine == <<"2", D, Q, "a", D, "b", Q>>
OpenQuoteLine == <<"h", D, Q, "k">>

LineSet == {EmptyLine, HeaderLine, RowLine, QuotedLine, OpenQuoteLine}

RECURSIVE SeqsUpTo(_, _)
SeqsUpTo(S, n) ==
  IF n = 0 THEN {<< >>}
  ELSE LET shorter == SeqsUpTo(S, n - 1)
       IN shorter \cup {Append(s, x) : s \in {t \in shorter : Len(t) = n - 1}, x \in S}

\* A file whose data lines outnumber every batch: lines remain when the
\* reader stops early.
LongFile == <<HeaderLine, RowLine, QuotedLine, RowLine, RowLine>>

Files == SeqsUpTo(LineSet, MaxLines) \cup {LongFile}

\* ------------------------------------------------------------------------
\* csvToJson: papa.parse(`${headers}\n${csv}`, {quoteChar: '"', header: true})
\* and data[0] of its result.
\* ------------------------------------------------------------------------
\* String.prototype.indexOf(ch, from) on 1-based positions; 0 when absent.
IndexOf(s, ch, from) ==
  LET hits == {i \in from..Len(s) : s[i] = ch}
  IN IF hits = {} THEN 0 ELSE CHOOSE i \in hits : \A j \in hits : i <= j

\* value.replace(/""/g, '"'): an escaped quote inside a quoted field.
RECURSIVE Unescape(_)
Unescape(s) ==
  IF Len(s) < 2 THEN s
  ELSE IF s[1] = Q /\ s[2] = Q THEN <<Q>> \o Unescape(SubSeq(s, 3, Len(s)))
  ELSE <<s[1]>> \o Unescape(Tail(s))

\* The closing quote of the quoted field whose text starts at position
\* cursor, searching from position from: <<kind, position>>.
RECURSIVE ClosingQuote(_, _)
ClosingQuote(input, from) ==
  LET q == IndexOf(input, Q, from)
  IN IF q = 0 THEN <<"missing", 0>>
     ELSE IF q = Len(input) THEN <<"eof", q>>
     ELSE IF input[q + 1] = Q THEN ClosingQuote(input, q + 2)
     ELSE IF input[q + 1] = D THEN <<"delim", q>>
     ELSE IF input[q + 1] = NL THEN <<"newline", q>>
     ELSE ClosingQuote(input, q + 1)

\* Parser.parse: the rows of input, each a sequence of fields.
RECURSIVE ParseRows(_, _, _, _)
ParseRows(input, cursor, row, data) ==
  IF cursor <= Len(input) /\ input[cursor] = Q
  THEN LET cq == ClosingQuote(input, cursor + 1)
           text == Unescape(SubSeq(input, cursor + 1, cq[2] - 1))
       IN CASE cq[1] = "missing" ->
                 Append(data, Append(row, SubSeq(input, cursor + 1, Len(input))))
            [] cq[1] = "eof" -> Append(data, Append(row, text))
            [] cq[1] = "delim" -> ParseRows(input, cq[2] + 2, Append(row, text), data)
            [] OTHER -> ParseRows(input, cq[2] + 2, << >>, Append(data, Append(row, text)))
  ELSE LET nextDelim == IndexOf(input, D, cursor)
           nextNewline == IndexOf(input, NL, cursor)
       IN IF nextDelim # 0 /\ (nextDelim < nextNewline \/ nextNewline = 0)
          THEN ParseRows(input, nextDelim + 1,
                         Append(row, SubSeq(input, cursor, nextDelim - 1)), data)
          ELSE IF nextNewline # 0
          THEN ParseRows(input, nextNewline + 1, << >>,
                         Append(data, Append(row, SubSeq(input, cursor, nextNewline - 1))))
          ELSE Append(data, Append(row, SubSeq(input, cursor, Len(input))))

\* A JavaScript object built by processRow: the header fields paired with
\* the row's fields by position (a repeated header name keeps its last
\* value), the surplus fields under __parsed_extra.
NullJson == [null |-> TRUE, fields |-> {}, extra |-> << >>]

ProcessRow(fields, rowSource) ==
  LET n == Min(Len(fields), Len(rowSource))
      last(j) == CHOOSE i \in j..n : fields[i] = fields[j]
                                     /\ \A m \in (i + 1)..n : fields[m] # fields[j]
  IN [null |-> FALSE,
      fields |-> {<<fields[j], rowSource[last(j)]>> : j \in 1..n},
      extra |-> SubSeq(rowSource, n + 1, Len(rowSource))]

\* Mutant of csvToJson: the data line is put before the header line.
csvToJsonSwapped(headers, csv) ==
  LET rows == ParseRows(csv \o <<NL>> \o headers, 1, << >>, << >>)
      data == Tail(rows)
  IN IF data = << >> THEN NullJson ELSE ProcessRow(rows[1], data[1])

csvToJson(headers, csv) ==
  LET rows == ParseRows(headers \o <<NL>> \o csv, 1, << >>, << >>)
      data == Tail(rows)
  IN IF data = << >> THEN NullJson ELSE ProcessRow(rows[1], data[1])

\* ------------------------------------------------------------------------
\* State
\* ------------------------------------------------------------------------
VARIABLES
  file,        \* the lines of the dataset (the content the download delivers)
  fileName,    \* the name under ./datasets the calls read
  diskLines,   \* -1: the file is absent; otherwise the number of its lines on disk
  ioFaulty,    \* whether the device may raise a read error in mid-stream
  alive,       \* FALSE once an uncaught exception has ended the process
  uncaught,    \* the number of 'error' events emitted with no listener
  reader,      \* per call: the state of readCSVInBatches / getRecordCount
  apiKind,     \* this.apiKind
  initialDatasetTs,  \* this.initialDatasetTs
  dirExists,   \* whether ./datasets exists
  canCreate,   \* whether the file system lets ./datasets and the file be created
  mkdirPending,  \* an fs.mkdir has been issued and has not completed
  call,        \* per call: the state of getInitialDatasetInBatch / getInitialDatasetCount
  csv,         \* a direct call of csvToJson: its arguments and what it returned
  params,      \* the KoordinatesDatasetParams given to the constructor
  constructed, \* "no", "yes", or "thrown" when the constructor threw
  layerId,     \* this.layerId
  tableId,     \* this.tableId
  hasChangesets,          \* this.hasChangesets
  hasSpatialInformation,  \* this.hasSpatialInformation
  requests,    \* the HTTP requests issued by fetch, in order
  http,        \* the call of a capabilities, changeset or query method
  pager        \* a caller that reads the file window after window

objectVars == <<params, constructed, layerId, tableId, hasChangesets, hasSpatialInformation>>

\* The variables the file-reading methods never touch.
otherVars == <<csv, objectVars, requests, http, pager>>

vars == <<file, fileName, diskLines, ioFaulty, alive, uncaught, reader,
          otherVars, apiKind, initialDatasetTs, dirExists, canCreate, mkdirPending, call>>

readerEnv == <<file, fileName, diskLines, ioFaulty>>
datasetVars == <<otherVars, apiKind, initialDatasetTs, dirExists, canCreate, mkdirPending, call>>

\* No direct call of csvToJson is made.
NoCsv == [headers |-> << >>, row |-> << >>, returned |-> FALSE, json |-> NullJson]

\* An optional parameter: << >> when undefined, <<v>> when given.
Undefined == << >>
Given(v) == <<v>>

\* No call of an HTTP method is made.
IdleHttp == [method |-> "none", pc |-> "idle", outcome |-> "none", error |-> <<"", "">>]

\* No caller reads the file window after window.
IdlePager == [batch |-> 0, next |-> 0, acc |-> << >>, pages |-> 0, done |-> FALSE]

\* A dataset constructed with a layer id and nothing optional, no direct
\* call of csvToJson and no call of an HTTP method.
OthersIdle ==
  /\ csv = NoCsv
  /\ params = [layerId |-> Given(1), tableId |-> Undefined,
               hasChangesets |-> Undefined, hasSpatialInformation |-> Undefined]
  /\ constructed = "yes"
  /\ layerId = 1
  /\ tableId = -1
  /\ hasChangesets = FALSE
  /\ hasSpatialInformation = FALSE
  /\ requests = << >>
  /\ http = IdleHttp
  /\ pager = IdlePager

GoodName == "ds.csv"
\* A name holding a NUL byte: fs.createReadStream throws on it synchronously.
BadName == "ds\\0.csv"

FilePath(name) == <<"./datasets/", name>>
PathIsValid(path) == path[2] # BadName

NoError == [msg |-> "", path |-> << >>]

IdleReader ==
  [op |-> "none", filePath |-> << >>, start |-> 0, batch |-> 0,
   records |-> << >>, headers |-> << >>, recordCount |-> 0, count |-> 0,
   stream |-> "none", rl |-> "none", pos |-> 0,
   promise |-> "none", value |-> 0, error |-> NoError,
   ioError |-> FALSE, pendingAtError |-> FALSE, linesAfterClose |-> 0]

\* ------------------------------------------------------------------------
\* readCSVInBatches and getRecordCount: the promise executors and the
\* 'line' and 'close' listeners, as functions of the call's state r.
\* ------------------------------------------------------------------------
\* resolve(v) of a promise: the first settlement wins.
Resolve(r) == IF r.promise = "pending" THEN [r EXCEPT !.promise = "resolved"] ELSE r

\* rl.on("close") of readCSVInBatches: resolve(records).  The promise holds
\* the array itself, so its value is r.records.
ReadOnClose(r) == Resolve(r)

\* Mutant of CountOnClose: the header is subtracted without the count > 0 test.
CountOnCloseUnguarded(r) ==
  LET n == r.count - 1
  IN IF r.promise = "pending"
     THEN [r EXCEPT !.count = n, !.value = n, !.promise = "resolved"]
     ELSE [r EXCEPT !.count = n]

\* rl.on("close") of getRecordCount.
CountOnClose(r) ==
  LET n == IF r.count > 0 THEN r.count - 1 ELSE r.count
  IN IF r.promise = "pending"
     THEN [r EXCEPT !.count = n, !.value = n, !.promise = "resolved"]
     ELSE [r EXCEPT !.count = n]

\* rl.close(): the first call pauses the input and emits 'close'; a later
\* call returns at once.
RlClose(r) ==
  IF r.rl # "open" THEN r
  ELSE LET closed == [r EXCEPT !.rl = "closed",
                               !.stream = IF @ = "flowing" THEN "paused" ELSE @]
       IN IF r.op = "read" THEN ReadOnClose(closed) ELSE CountOnClose(closed)

\* rl.on("line") of readCSVInBatches.
ReadOnLine(r, row) ==
  IF r.headers = << >>
  THEN [r EXCEPT !.headers = row]
  ELSE LET json == csvToJson(r.headers, row)
           r1 == IF r.recordCount >= r.start /\ r.recordCount < r.start + r.batch
                 THEN IF json # NullJson
                      THEN [r EXCEPT !.records = Append(@, json)]
                      ELSE r
                 ELSE IF r.recordCount >= r.start + r.batch
                      THEN RlClose(r)
                      ELSE r
       IN [r1 EXCEPT !.recordCount = @ + 1]

\* rl.on("line") of getRecordCount.
CountOnLine(r, row) == [r EXCEPT !.count = @ + 1]

\* Mutant of ReaderStart: the records array is shared with the first call
\* instead of being created by each call.
ReaderStartSharedRecords(op, path, start, batch) ==
  IF ~PathIsValid(path)
  THEN [IdleReader EXCEPT !.op = op, !.filePath = path, !.start = start,
                          !.batch = batch, !.promise = "rejected",
                          !.error = [msg |-> "Failed reading file", path |-> path]]
  ELSE [IdleReader EXCEPT !.op = op, !.filePath = path, !.start = start,
                          !.batch = batch, !.promise = "pending",
                          !.stream = "opening", !.rl = "open",
                          !.records = reader[1].records]

\* The body of the executor: createReadStream throws on an invalid path and
\* the catch rejects; otherwise the stream is opening and both listeners
\* are registered.
ReaderStart(op, path, start, batch) ==
  IF ~PathIsValid(path)
  THEN [IdleReader EXCEPT !.op = op, !.filePath = path, !.start = start,
                          !.batch = batch, !.promise = "rejected",
                          !.error = [msg |-> "Failed reading file", path |-> path]]
  ELSE [IdleReader EXCEPT !.op = op, !.filePath = path, !.start = start,
                          !.batch = batch, !.promise = "pending",
                          !.stream = "opening", !.rl = "open"]

\* Mutant of OnStreamError: the error is treated like the end of the input,
\* so the interface closes and its 'close' listener runs.
OnStreamErrorCloses(r) ==
  LET e == [r EXCEPT !.stream = "errored", !.ioError = TRUE,
                     !.pendingAtError = (r.promise = "pending")]
  IN IF e.rl # "open" THEN e
     ELSE IF e.op = "read" THEN Resolve([e EXCEPT !.rl = "closed"])
     ELSE [e EXCEPT !.rl = "closed", !.promise = "resolved"]

\* An 'error' event of the read stream.  Neither method registers an
\* 'error' listener: the stream is destroyed, no 'end' and no 'close' of
\* the interface follows, and the promise is left as it is.
OnStreamError(r) ==
  [r EXCEPT !.stream = "errored", !.ioError = TRUE,
            !.pendingAtError = (r.promise = "pending")]

\* readline's listener for 'end' of its input: close().
OnStreamEnd(r) == RlClose([r EXCEPT !.stream = "ended"])

\* One line delivered to the 'line' listener.
OnLine(r, row) ==
  LET r1 == [r EXCEPT !.pos = @ + 1,
                      !.linesAfterClose = IF r.rl = "closed" THEN @ + 1 ELSE @]
  IN IF r.op = "read" THEN ReadOnLine(r1, row) ELSE CountOnLine(r1, row)

\* ------------------------------------------------------------------------
\* Actions of the reader
\* ------------------------------------------------------------------------
\* An 'error' event with no listener is thrown as an uncaught exception:
\* it ends the process unless the host has installed a handler.
Uncaught ==
  /\ uncaught' = uncaught + 1
  /\ alive' \in BOOLEAN

CallReadCSVInBatches(c, start, batch) ==
  /\ alive
  /\ reader[c].op = "none"
  /\ reader' = [reader EXCEPT ![c] = ReaderStart("read", FilePath(fileName), start, batch)]
  /\ UNCHANGED <<readerEnv, alive, uncaught, datasetVars>>

CallGetRecordCount(c) ==
  /\ alive
  /\ reader[c].op = "none"
  /\ reader' = [reader EXCEPT ![c] = ReaderStart("count", FilePath(fileName), 0, 0)]
  /\ UNCHANGED <<readerEnv, alive, uncaught, datasetVars>>

\* fs.open of the read stream completes: 'open' when the file is there,
\* 'error' (ENOENT) when it is not.
StreamOpened(c) ==
  /\ alive
  /\ reader[c].stream = "opening"
  /\ IF diskLines >= 0
     THEN /\ reader' = [reader EXCEPT ![c].stream = "flowing"]
          /\ UNCHANGED <<alive, uncaught>>
     ELSE /\ reader' = [reader EXCEPT ![c] = OnStreamError(@)]
          /\ Uncaught
  /\ UNCHANGED <<readerEnv, datasetVars>>

\* readline emits the next line.  After rl.close() the lines of the chunk
\* already read are still emitted.
LineEvent(c) ==
  /\ alive
  /\ reader[c].stream \in {"flowing", "paused"}
  /\ reader[c].pos < diskLines
  /\ reader' = [reader EXCEPT ![c] = OnLine(@, file[reader[c].pos + 1])]
  /\ UNCHANGED <<readerEnv, alive, uncaught, datasetVars>>

\* The stream reaches the end of the file.
EndEvent(c) ==
  /\ alive
  /\ reader[c].stream = "flowing"
  /\ diskLines >= 0
  /\ reader[c].pos >= diskLines
  /\ reader' = [reader EXCEPT ![c] = OnStreamEnd(@)]
  /\ UNCHANGED <<readerEnv, alive, uncaught, datasetVars>>

\* A read of the stream fails (EIO) in mid-stream.
StreamIOError(c) ==
  /\ alive
  /\ ioFaulty
  /\ reader[c].stream = "flowing"
  /\ reader' = [reader EXCEPT ![c] = OnStreamError(@)]
  /\ Uncaught
  /\ UNCHANGED <<readerEnv, datasetVars>>

\* ------------------------------------------------------------------------
\* getInitialDatasetInBatch, getInitialDatasetCount,
\* downloadInitialDatasetFromS3 and waitForFile
\* ------------------------------------------------------------------------
WFS  == "OGC Web Feature Service"
WMTS == "OGC Web Map Tile Service"

WfsOnlyError   == "Initial dataset is available for WFS (Web Feature Service) only."
BatchSizeError == "Batch size must be between 1 and 100000"
TsEmptyError   == "Initial dataset timestamp cannot be empty"
FetchError     == "fetch failed"

IdleCall ==
  [op |-> "none", pc |-> "idle", start |-> 0, batch |-> 0,
   outcome |-> "none", error |-> "", io |-> << >>,
   ws |-> "none", written |-> FALSE,
   elapsed |-> 0, polls |-> 0, waitResult |-> "none",
   fileAtRead |-> -2, overlapped |-> FALSE]

\* The settlement of the promise the public method returned: once the
\* method awaits the reader, it settles as the reader's promise does.
Outcome(c) == IF call[c].pc = "reading" THEN reader[c].promise ELSE call[c].outcome

InFlight(c) == call[c].pc # "idle" /\ Outcome(c) = "pending"

Rejected(k, msg) == [k EXCEPT !.pc = "done", !.outcome = "rejected", !.error = msg]

\* Mutant of InBatchBranch: the upper limit of the batch size is not checked.
InBatchBranchNoUpperLimit(batch) ==
  IF apiKind # WFS THEN WfsOnlyError
  ELSE IF batch <= 0 THEN BatchSizeError
  ELSE IF fileName # "" /\ initialDatasetTs # "" THEN "download"
  ELSE IF initialDatasetTs # "" THEN "undefined"
  ELSE TsEmptyError

\* Mutant of InBatchBranch: the batch size is checked before the apiKind.
InBatchBranchBatchFirst(batch) ==
  IF batch <= 0 \/ batch > MaxBatch THEN BatchSizeError
  ELSE IF apiKind # WFS THEN WfsOnlyError
  ELSE IF fileName # "" /\ initialDatasetTs # "" THEN "download"
  ELSE IF initialDatasetTs # "" THEN "undefined"
  ELSE TsEmptyError

\* The branch getInitialDatasetInBatch takes, from its checks in order.
InBatchBranch(batch) ==
  IF apiKind # WFS THEN WfsOnlyError
  ELSE IF batch <= 0 \/ batch > MaxBatch THEN BatchSizeError
  ELSE IF fileName # "" /\ initialDatasetTs # "" THEN "download"
  ELSE IF initialDatasetTs # "" THEN "undefined"
  ELSE TsEmptyError

\* downloadInitialDatasetFromS3 up to its first await, for call state k:
\* the two existsSync checks, the mkdir it issues without awaiting it, and
\* either the fetch or, the file being there, the return to the caller.
DownloadEntry(k) ==
  LET io1 == k.io \o <<"existsSync ./datasets">>
                  \o (IF dirExists THEN << >> ELSE <<"mkdir ./datasets">>)
                  \o <<"existsSync file">>
  IN IF diskLines >= 0
     THEN [k EXCEPT !.pc = "read", !.outcome = "pending", !.io = io1]
     ELSE [k EXCEPT !.pc = "fetch", !.outcome = "pending", !.io = io1 \o <<"fetch">>]

\* The other call is marked as overlapped when this one starts while it is
\* in flight.
MarkOverlap(c, k) ==
  LET others == {o \in Calls \ {c} : InFlight(o)}
  IN [o \in Calls |->
        IF o = c THEN [k EXCEPT !.overlapped = (others # {})]
        ELSE IF o \in others THEN [call[o] EXCEPT !.overlapped = TRUE]
        ELSE call[o]]

CallGetInitialDatasetInBatch(c, start, batch) ==
  /\ alive
  /\ call[c].pc = "idle"
  /\ LET k == [call[c] EXCEPT !.op = "batch", !.start = start, !.batch = batch]
         branch == InBatchBranch(batch)
     IN IF branch = "download"
        THEN /\ call' = MarkOverlap(c, DownloadEntry(k))
             /\ mkdirPending' = (mkdirPending \/ ~dirExists)
        ELSE IF branch = "undefined"
        THEN /\ call' = [call EXCEPT ![c] = [k EXCEPT !.pc = "done", !.outcome = "resolved"]]
             /\ UNCHANGED mkdirPending
        ELSE /\ call' = [call EXCEPT ![c] = Rejected(k, branch)]
             /\ UNCHANGED mkdirPending
  /\ UNCHANGED <<readerEnv, alive, uncaught, reader,
                 otherVars, apiKind, initialDatasetTs, dirExists, canCreate>>

\* getInitialDatasetCount checks nothing before it downloads.  The model
\* calls it for a dataset that names its file.
CallGetInitialDatasetCount(c) ==
  /\ alive
  /\ call[c].pc = "idle"
  /\ fileName # ""
  /\ call' = MarkOverlap(c, DownloadEntry([call[c] EXCEPT !.op = "count"]))
  /\ mkdirPending' = (mkdirPending \/ ~dirExists)
  /\ UNCHANGED <<readerEnv, alive, uncaught, reader,
                 otherVars, apiKind, initialDatasetTs, dirExists, canCreate>>

\* fs.mkdir completes; its callback ignores the error.
MkdirDone ==
  /\ alive
  /\ mkdirPending
  /\ mkdirPending' = FALSE
  /\ dirExists' = (dirExists \/ canCreate)
  /\ UNCHANGED <<readerEnv, alive, uncaught, reader,
                 otherVars, apiKind, initialDatasetTs, canCreate, call>>

\* await fetch(...): the response arrives, or the request fails and the
\* call is rejected.
FetchSettled(c) ==
  /\ alive
  /\ call[c].pc = "fetch"
  /\ \E ok \in BOOLEAN :
       call' = [call EXCEPT ![c] = IF ok THEN [@ EXCEPT !.pc = "body"]
                                   ELSE Rejected(@, FetchError)]
  /\ UNCHANGED <<readerEnv, alive, uncaught, reader,
                 otherVars, apiKind, initialDatasetTs, dirExists, canCreate, mkdirPending>>

\* Mutant of WaitLoop: the loop gives up once a poll interval has passed.
WaitLoopGivesUpEarly(k) ==
  IF k.elapsed < PollInterval
  THEN [k EXCEPT !.pc = "stat", !.io = @ \o <<"stat">>]
  ELSE [k EXCEPT !.pc = "read", !.waitResult = "null"]

\* while (Date.now() - startTime < timeout) of waitForFile: the next stat
\* is issued, or the loop is left and null is returned; the caller ignores
\* what waitForFile returns and goes on to read.
WaitLoop(k) ==
  IF k.elapsed < FILE_WRITE_TIMEOUT
  THEN [k EXCEPT !.pc = "stat", !.io = @ \o <<"stat">>]
  ELSE [k EXCEPT !.pc = "read", !.waitResult = "null"]

\* await downloadReq.arrayBuffer() resolves: the write stream is created
\* (its open is issued), the buffer is handed to write(), and waitForFile
\* starts with its first stat.
BodyRead(c) ==
  /\ alive
  /\ call[c].pc = "body"
  /\ call' = [call EXCEPT ![c] =
                WaitLoop([@ EXCEPT !.io = @ \o <<"createWriteStream">>,
                                   !.ws = "opening", !.elapsed = 0])]
  /\ UNCHANGED <<readerEnv, alive, uncaught, reader,
                 otherVars, apiKind, initialDatasetTs, dirExists, canCreate, mkdirPending>>

\* fs.open(fn, 'w') of the write stream completes: the file is created or
\* truncated, or the open fails and the stream emits 'error', for which
\* there is no listener.
WriteStreamOpened(c) ==
  /\ alive
  /\ call[c].ws = "opening"
  /\ IF dirExists /\ canCreate
     THEN /\ call' = [call EXCEPT ![c].ws = "open"]
          /\ diskLines' = 0
          /\ UNCHANGED <<alive, uncaught>>
     ELSE /\ call' = [call EXCEPT ![c].ws = "errored"]
          /\ UNCHANGED diskLines
          /\ Uncaught
  /\ UNCHANGED <<file, fileName, ioFaulty, reader,
                 otherVars, apiKind, initialDatasetTs, dirExists, canCreate, mkdirPending>>

\* The buffered write of the whole download reaches the file.
WriteStreamWritten(c) ==
  /\ alive
  /\ call[c].ws = "open"
  /\ ~call[c].written
  /\ call' = [call EXCEPT ![c].written = TRUE]
  /\ diskLines' = Len(file)
  /\ UNCHANGED <<file, fileName, ioFaulty, alive, uncaught, reader,
                 otherVars, apiKind, initialDatasetTs, dirExists, canCreate, mkdirPending>>

\* await this.stat(filePath) settles: "Found" is returned, or the call
\* sleeps for the poll interval.
StatSettled(c) ==
  /\ alive
  /\ call[c].pc = "stat"
  /\ call' = [call EXCEPT ![c] =
                IF diskLines >= 0
                THEN [@ EXCEPT !.pc = "read", !.waitResult = "Found"]
                ELSE [@ EXCEPT !.pc = "sleep", !.polls = @ + 1]]
  /\ UNCHANGED <<readerEnv, alive, uncaught, reader,
                 otherVars, apiKind, initialDatasetTs, dirExists, canCreate, mkdirPending>>

\* Time passes while a call sleeps: by the poll interval, or by as long as
\* the timeout, which stands for the run of polls that all fail while the
\* file stays absent.  File-system operations take less than a poll
\* interval, so none is pending when a timer fires.  Every sleeper wakes.
\* After MaxPolls failed polls of a call, with the file still absent, only
\* the long step is taken.
Tick(d) ==
  /\ alive
  /\ \E c \in Calls : call[c].pc = "sleep"
  /\ ~mkdirPending
  /\ \A c \in Calls : call[c].ws # "opening"
  /\ (d = PollInterval /\ diskLines = -1) =>
       \A c \in Calls : call[c].pc = "sleep" => call[c].polls <= MaxPolls
  /\ d = FILE_WRITE_TIMEOUT => diskLines = -1
  /\ call' = [c \in Calls |->
                IF call[c].pc \in {"stat", "sleep", "loop"}
                THEN [call[c] EXCEPT
                        !.elapsed = Min(@ + d, FILE_WRITE_TIMEOUT),
                        !.pc = IF @ = "sleep" THEN "loop" ELSE @]
                ELSE call[c]]
  /\ UNCHANGED <<readerEnv, alive, uncaught, reader,
                 otherVars, apiKind, initialDatasetTs, dirExists, canCreate, mkdirPending>>

\* await this.sleep(2000) resolves and the loop condition is evaluated.
Woken(c) ==
  /\ alive
  /\ call[c].pc = "loop"
  /\ call' = [call EXCEPT ![c] = WaitLoop(@)]
  /\ UNCHANGED <<readerEnv, alive, uncaught, reader,
                 otherVars, apiKind, initialDatasetTs, dirExists, canCreate, mkdirPending>>

\* await this.downloadInitialDatasetFromS3() resolves and the method calls
\* readCSVInBatches or getRecordCount on ./datasets/<initialDataset>.
StartRead(c) ==
  /\ alive
  /\ call[c].pc = "read"
  /\ reader' = [reader EXCEPT ![c] =
                  ReaderStart(IF call[c].op = "batch" THEN "read" ELSE "count",
                              FilePath(fileName), call[c].start, call[c].batch)]
  /\ call' = [call EXCEPT ![c].pc = "reading",
                          ![c].io = @ \o <<"createReadStream">>,
                          ![c].fileAtRead = diskLines]
  /\ UNCHANGED <<readerEnv, alive, uncaught,
                 otherVars, apiKind, initialDatasetTs, dirExists, canCreate, mkdirPending>>

\* ------------------------------------------------------------------------
\* Spec: one call of readCSVInBatches or getRecordCount on any file
\* ------------------------------------------------------------------------
Starts == 0..MaxStart
Batches == {1, 2, MaxBatch}

Init ==
  /\ file \in Files
  /\ fileName \in {GoodName, BadName}
  /\ diskLines \in {-1, Len(file)}
  /\ ioFaulty \in BOOLEAN
  /\ alive = TRUE
  /\ uncaught = 0
  /\ reader = [c \in ReaderCalls |-> IdleReader]
  /\ apiKind = WFS
  /\ initialDatasetTs = "ts"
  /\ dirExists = TRUE
  /\ canCreate = TRUE
  /\ mkdirPending = FALSE
  /\ call = [c \in Calls |-> IdleCall]
  /\ OthersIdle

Next ==
  \/ \E start \in Starts, batch \in Batches : CallReadCSVInBatches(1, start, batch)
  \/ CallGetRecordCount(1)
  \/ StreamOpened(1)
  \/ LineEvent(1)
  \/ EndEvent(1)
  \/ StreamIOError(1)

Spec == Init /\ [][Next]_vars

\* ------------------------------------------------------------------------
\* SpecDataset: two calls of the public methods on one dataset, from every
\* state of the local cache
\* ------------------------------------------------------------------------
DatasetFile == <<HeaderLine, RowLine, QuotedLine>>
DatasetStarts == {0}
DatasetBatches == {-1, 0, 1, MaxBatch, MaxBatch + 1}

InitDataset ==
  /\ file = DatasetFile
  /\ fileName \in {"", GoodName}
  /\ dirExists \in BOOLEAN
  /\ canCreate \in BOOLEAN
  /\ diskLines \in (IF dirExists THEN {-1, Len(file)} ELSE {-1})
  /\ ioFaulty = FALSE
  /\ alive = TRUE
  /\ uncaught = 0
  /\ reader = [c \in ReaderCalls |-> IdleReader]
  /\ apiKind \in {WFS, WMTS}
  /\ initialDatasetTs \in {"", "2014-05-13T05:27:00Z"}
  /\ mkdirPending = FALSE
  /\ call = [c \in Calls |-> IdleCall]
  /\ OthersIdle

\* The two calls are interchangeable: call 2 is the one made second.
InOrder(c) == c = 2 => call[1].pc # "idle"

NextDataset ==
  \/ \E c \in Calls, start \in DatasetStarts, batch \in DatasetBatches :
       InOrder(c) /\ CallGetInitialDatasetInBatch(c, start, batch)
  \/ \E c \in Calls : InOrder(c) /\ CallGetInitialDatasetCount(c)
  \/ MkdirDone
  \/ \E c \in Calls : FetchSettled(c)
  \/ \E c \in Calls : BodyRead(c)
  \/ \E c \in Calls : WriteStreamOpened(c)
  \/ \E c \in Calls : WriteStreamWritten(c)
  \/ \E c \in Calls : StatSettled(c)
  \/ \E d \in {PollInterval, FILE_WRITE_TIMEOUT} : Tick(d)
  \/ \E c \in Calls : Woken(c)
  \/ \E c \in Calls : StartRead(c)
  \/ \E c \in Calls : StreamOpened(c)
  \/ \E c \in Calls : LineEvent(c)
  \/ \E c \in Calls : EndEvent(c)

SpecDataset == InitDataset /\ [][NextDataset]_vars

\* ------------------------------------------------------------------------
\* Reference values, computed from the file alone
\* ------------------------------------------------------------------------
\* The number of lines after the first.
TotalRecords(f) == IF Len(f) > 0 THEN Len(f) - 1 ELSE 0

\* The records of the data lines whose zero-based position after the first
\* line lies in [start, start + batch), in file order; a line from which
\* the parser produces no record contributes none.
WindowRecords(f, start, batch) ==
  LET hi == Min(start + batch, TotalRecords(f))
      RECURSIVE from(_)
      from(p) ==
        IF p >= hi THEN << >>
        ELSE LET json == csvToJson(f[1], f[p + 2])
             IN (IF json = NullJson THEN << >> ELSE <<json>>) \o from(p + 1)
  IN from(start)

ReadSettled(c) ==
  /\ reader[c].op = "read"
  /\ PathIsValid(reader[c].filePath)
  /\ reader[c].promise # "pending"

\* ------------------------------------------------------------------------
\* Claims about readCSVInBatches and getRecordCount (checked under Spec)
\* ------------------------------------------------------------------------
\* C1: for every file, every start >= 0 and every batch in 1..100000,
\* readCSVInBatches resolves, never rejects, and the sequence it resolves
\* with has max(0, min(batch, total_records - start)) elements, where
\* total_records is the number of lines after the first.
C1_BatchLength ==
  \A c \in Calls :
    ReadSettled(c) =>
      /\ reader[c].promise = "resolved"
      /\ Len(reader[c].records)
           = Max(0, Min(reader[c].batch, TotalRecords(file) - reader[c].start))

\* C2: the sequence readCSVInBatches resolves with holds exactly the records
\* of the data lines at positions [start, start + batch) after the first
\* line, each once and in file order.
C2_WindowRecords ==
  \A c \in Calls :
    (ReadSettled(c) /\ reader[c].promise = "resolved") =>
      reader[c].records = WindowRecords(file, reader[c].start, reader[c].batch)

\* C3: getRecordCount reads the whole file and resolves with the number of
\* lines minus one for a file of at least one line and with 0 for a file of
\* no lines; the result is never negative.
C3_RecordCount ==
  \A c \in Calls :
    (reader[c].op = "count" /\ reader[c].promise = "resolved") =>
      /\ reader[c].pos = Len(file)
      /\ reader[c].value = (IF Len(file) >= 1 THEN Len(file) - 1 ELSE 0)
      /\ reader[c].value >= 0

C3_Witness ==
  \E c \in Calls :
    /\ reader[c].op = "count"
    /\ reader[c].promise = "resolved"
    /\ Len(file) >= 2
    /\ reader[c].value = Len(file) - 1

\* C4: in readCSVInBatches the first line delivered is the header, also
\* when it is the empty string: it does not advance the data-line index,
\* and every later line is a data line, which advances the index by one.
C4_FirstLineIsHeader ==
  \A c \in Calls :
    (reader[c].op = "read" /\ reader[c].pos >= 1) =>
      /\ reader[c].headers = file[1]
      /\ reader[c].recordCount = reader[c].pos - 1

\* C5: when the file cannot be opened or the stream raises an I/O error,
\* the promise of readCSVInBatches and of getRecordCount is rejected with
\* an error whose message names the file path.
C5_IOErrorRejects ==
  \A c \in Calls :
    reader[c].ioError =>
      /\ reader[c].promise = "rejected"
      /\ reader[c].error = [msg |-> "Failed reading file", path |-> reader[c].filePath]

\* C6: after an I/O error that strikes while readCSVInBatches is still
\* collecting, the promise is never resolved with the records collected so
\* far.
C6_NoPartialBatch ==
  \A c \in Calls :
    (reader[c].op = "read" /\ reader[c].ioError /\ reader[c].pendingAtError) =>
      reader[c].promise # "resolved"

C6_Witness ==
  \E c \in Calls :
    /\ reader[c].op = "read"
    /\ reader[c].ioError
    /\ reader[c].pendingAtError
    /\ reader[c].records # << >>
    /\ reader[c].promise = "pending"

\* ------------------------------------------------------------------------
\* Claims about getInitialDatasetInBatch, getInitialDatasetCount and the
\* download (checked under SpecDataset)
\* ------------------------------------------------------------------------
InvalidBatch(c) ==
  /\ call[c].op = "batch"
  /\ (call[c].batch <= 0 \/ call[c].batch > MaxBatch)

NoIO(c) == call[c].io = << >> /\ reader[c].op = "none" /\ call[c].ws = "none"

\* C7 as stated: getInitialDatasetInBatch called with batch <= 0 or
\* batch > 100000 is rejected with the batch-size error before any I/O.
C7_BatchSizeError ==
  \A c \in Calls :
    InvalidBatch(c) =>
      /\ Outcome(c) = "rejected"
      /\ call[c].error = BatchSizeError
      /\ NoIO(c)

\* C7 as amended: getInitialDatasetInBatch called with batch <= 0 or
\* batch > 100000 is rejected before any I/O, with the batch-size error
\* when the dataset's apiKind is WFS and with the WFS-only error otherwise.
C7_InvalidBatchRejectedBeforeIO ==
  \A c \in Calls :
    InvalidBatch(c) =>
      /\ Outcome(c) = "rejected"
      /\ call[c].error = (IF apiKind = WFS THEN BatchSizeError ELSE WfsOnlyError)
      /\ NoIO(c)

C7_Witness ==
  \E c \in Calls :
    /\ call[c].op = "batch"
    /\ call[c].batch = MaxBatch + 1
    /\ apiKind = WFS
    /\ fileName # ""
    /\ initialDatasetTs # ""
    /\ diskLines = -1
    /\ Outcome(c) = "rejected"
    /\ call[c].error = BatchSizeError

\* C8: whenever getInitialDatasetInBatch or getInitialDatasetCount starts
\* to read ./datasets/<initialDataset>, the file exists at that moment, on
\* every path through downloadInitialDatasetFromS3.
C8_FileExistsAtRead ==
  \A c \in Calls : call[c].fileAtRead # -2 => call[c].fileAtRead >= 0

\* C9: the dataset is downloaded only if it is not found in ./datasets, so
\* the file stays unchanged once it has been downloaded: no step of any
\* call changes a file that holds the whole dataset.
C9_FileUnchangedOnceDownloaded ==
  [][diskLines = Len(file) => diskLines' = diskLines]_vars

\* What a call returns when it runs alone: the records of its window, or
\* the number of records, of the whole dataset.
AloneResult(c) ==
  IF call[c].op = "batch"
  THEN reader[c].records = WindowRecords(file, call[c].start, call[c].batch)
  ELSE reader[c].value = TotalRecords(file)

\* C10: a call that was in flight together with another call on the same
\* dataset returns what it returns when run alone, also when the file was
\* not yet present locally when the calls started.
C10_SameAsAlone ==
  \A c \in Calls :
    (call[c].overlapped /\ call[c].pc = "reading" /\ reader[c].promise = "resolved") =>
      AloneResult(c)

\* ------------------------------------------------------------------------
\* Claims continued: settlement and release of the stream (under Spec)
\* ------------------------------------------------------------------------
\* The call's read stream holds no open descriptor: it was never created,
\* or it has ended or failed (autoClose releases the descriptor on both).
StreamReleased(c) == reader[c].stream \in {"none", "ended", "errored"}

\* Some event of the call is still to come.
ReaderCanStep(c) ==
  /\ alive
  /\ \/ reader[c].stream = "opening"
     \/ reader[c].stream = "flowing"
     \/ reader[c].stream = "paused" /\ reader[c].pos < diskLines

\* C11: every call of readCSVInBatches and getRecordCount settles its
\* promise, on completion and on a failure to open or read the file alike,
\* and its stream is closed when it does: a call whose promise is pending
\* still has an event to come, and a call whose promise is settled has
\* released its stream.
C11_SettlesAndCloses ==
  \A c \in Calls :
    /\ reader[c].promise = "pending" => ReaderCanStep(c)
    /\ reader[c].promise \in {"resolved", "rejected"} => StreamReleased(c)

\* ------------------------------------------------------------------------
\* Claims continued: the early stop of readCSVInBatches (under Spec)
\* ------------------------------------------------------------------------
\* The 'line' listener of readCSVInBatches applied to the lines of f from
\* position p on, by an interface that is never closed.
RECURSIVE ReadWhole(_, _, _)
ReadWhole(r, f, p) ==
  IF p > Len(f) THEN r ELSE ReadWhole(ReadOnLine(r, f[p]), f, p + 1)

\* The records collected when every line of f reaches the listener.
WholeFileRecords(f, start, batch) ==
  ReadWhole([IdleReader EXCEPT !.op = "read", !.start = start, !.batch = batch],
            f, 1).records

\* C12: readCSVInBatches stops reading once the data-line index reaches
\* start + batch: no line reaches the listener after the interface has been
\* closed, and the records returned are those collected when the whole file
\* is read to its end.
C12_StopsReading ==
  \A c \in Calls :
    reader[c].op = "read" =>
      /\ reader[c].linesAfterClose = 0
      /\ reader[c].promise = "resolved" =>
           reader[c].records = WholeFileRecords(file, reader[c].start, reader[c].batch)

\* ------------------------------------------------------------------------
\* SpecRepeat: a call of readCSVInBatches or getRecordCount (1), any call in
\* between (2), and the first call made again with the same arguments (3),
\* against a file that is there and does not change
\* ------------------------------------------------------------------------
BetweenStarts == {0, 1}
BetweenBatches == {1, MaxBatch}

InitRepeat ==
  /\ file \in Files
  /\ fileName \in {GoodName, BadName}
  /\ diskLines = Len(file)
  /\ ioFaulty = FALSE
  /\ alive = TRUE
  /\ uncaught = 0
  /\ reader = [c \in ReaderCalls |-> IdleReader]
  /\ apiKind = WFS
  /\ initialDatasetTs = "ts"
  /\ dirExists = TRUE
  /\ canCreate = TRUE
  /\ mkdirPending = FALSE
  /\ call = [c \in Calls |-> IdleCall]
  /\ OthersIdle

ReaderSettled(c) == reader[c].promise \in {"resolved", "rejected"}

\* The in-between call is made after the first call has returned and
\* before the repeated one.
BetweenGuard == ReaderSettled(1) /\ reader[3].op = "none"

RepeatCall ==
  /\ ReaderSettled(1)
  /\ reader[2].op = "none" \/ ReaderSettled(2)
  /\ IF reader[1].op = "read"
     THEN CallReadCSVInBatches(3, reader[1].start, reader[1].batch)
     ELSE CallGetRecordCount(3)

NextRepeat ==
  \/ \E start \in Starts, batch \in Batches : CallReadCSVInBatches(1, start, batch)
  \/ CallGetRecordCount(1)
  \/ \E start \in BetweenStarts, batch \in BetweenBatches :
       BetweenGuard /\ CallReadCSVInBatches(2, start, batch)
  \/ BetweenGuard /\ CallGetRecordCount(2)
  \/ RepeatCall
  \/ \E c \in ReaderCalls : StreamOpened(c)
  \/ \E c \in ReaderCalls : LineEvent(c)
  \/ \E c \in ReaderCalls : EndEvent(c)

SpecRepeat == InitRepeat /\ [][NextRepeat]_vars

\* What the caller of call c receives: the settlement of the promise and
\* the value or error it carries.
ReaderOutput(c) ==
  [promise |-> reader[c].promise,
   value   |-> IF reader[c].promise = "resolved" /\ reader[c].op = "count"
               THEN reader[c].value ELSE 0,
   records |-> IF reader[c].promise = "resolved" /\ reader[c].op = "read"
               THEN reader[c].records ELSE << >>,
   error   |-> reader[c].error]

\* C13: a call of readCSVInBatches or getRecordCount repeated with the same
\* arguments against an unchanged file returns the same output as the
\* first one, whatever call was made in between.
C13_RepeatedCallSameOutput ==
  (ReaderSettled(1) /\ ReaderSettled(3)) => ReaderOutput(3) = ReaderOutput(1)

C13_Witness ==
  /\ reader[1].op = "read"
  /\ reader[2].op # "none"
  /\ ReaderSettled(2)
  /\ reader[3].promise = "resolved"
  /\ Len(reader[3].records) = 2
  /\ ReaderOutput(3) = ReaderOutput(1)

\* ------------------------------------------------------------------------
\* SpecCsv: csvToJson applied to a header line and a data line, each written
\* from a list of fields
\* ------------------------------------------------------------------------
MaxFields == 2

\* A field as it is written into a line: its text, enclosed in double
\* quotes or not.  A text holding the delimiter or a quote is enclosed.
Raw(text) == [text |-> text, quoted |-> FALSE]
Quoted(text) == [text |-> text, quoted |-> TRUE]

HeaderTokens ==
  {Raw(<< >>), Raw(<<"i", "d">>), Raw(<<"n", "o", "t", "e">>),
   Quoted(<<"n", D, "o">>)}
RowTokens ==
  {Raw(<< >>), Raw(<<"1">>), Quoted(<<"a", D, "b">>), Quoted(<<"a", Q, "b">>)}

\* A quote inside an enclosed field is written twice.
RECURSIVE Escape(_)
Escape(s) ==
  IF s = << >> THEN << >>
  ELSE (IF s[1] = Q THEN <<Q, Q>> ELSE <<s[1]>>) \o Escape(Tail(s))

EncodeField(t) == IF t.quoted THEN <<Q>> \o Escape(t.text) \o <<Q>> ELSE t.text

RECURSIVE EncodeLine(_)
EncodeLine(ts) ==
  IF Len(ts) = 1 THEN EncodeField(ts[1])
  ELSE EncodeField(ts[1]) \o <<D>> \o EncodeLine(Tail(ts))

FieldLists(T) == SeqsUpTo(T, MaxFields) \ {<< >>}

InitCsv ==
  /\ file = << >>
  /\ fileName = GoodName
  /\ diskLines = 0
  /\ ioFaulty = FALSE
  /\ alive = TRUE
  /\ uncaught = 0
  /\ reader = [c \in ReaderCalls |-> IdleReader]
  /\ apiKind = WFS
  /\ initialDatasetTs = "ts"
  /\ dirExists = TRUE
  /\ canCreate = TRUE
  /\ mkdirPending = FALSE
  /\ call = [c \in Calls |-> IdleCall]
  /\ params = [layerId |-> Given(1), tableId |-> Undefined,
               hasChangesets |-> Undefined, hasSpatialInformation |-> Undefined]
  /\ constructed = "yes"
  /\ layerId = 1
  /\ tableId = -1
  /\ hasChangesets = FALSE
  /\ hasSpatialInformation = FALSE
  /\ requests = << >>
  /\ http = IdleHttp
  /\ pager = IdlePager
  /\ \E hs \in FieldLists(HeaderTokens), rs \in FieldLists(RowTokens) :
       csv = [headers |-> hs, row |-> rs, returned |-> FALSE, json |-> NullJson]

CallCsvToJson ==
  /\ ~csv.returned
  /\ csv' = [csv EXCEPT !.returned = TRUE,
                        !.json = csvToJson(EncodeLine(csv.headers), EncodeLine(csv.row))]
  /\ UNCHANGED <<readerEnv, alive, uncaught, reader, apiKind, initialDatasetTs,
                 dirExists, canCreate, mkdirPending, call, objectVars, requests, http,
                 pager>>

NextCsv == CallCsvToJson

SpecCsv == InitCsv /\ [][NextCsv]_vars

CsvReturned == csv.returned

DistinctNames(ts) == \A i, j \in 1..Len(ts) : ts[i].text = ts[j].text => i = j

OtherKind == "OGC Catalogue Service"

DatasetName == "nz-dataset"

BothUndefinedError == "layerId and tableId cannot be both undefined"
BothAssignedError  == "layerId and tableId cannot be assigned values"

UnsupportedKindError   == "Unsupported API kind"
NoChangesetsError      == "Changesets API is not supported by dataset"
ChangesetsWfsOnlyError == "Changesets API is available for WFS (Web Feature Service) only."
WfsMethodError         == "This method is applied to Web Feature Service datasets only"
WmtsMethodError        == "This method is applied to Web Map Tile Service datasets only"
NoSpatialError         == "This dataset does not have spatial information."
BodyError              == "invalid response body"

\* The state the constructor and the HTTP methods leave alone.
fileVars == <<readerEnv, alive, uncaught, reader, apiKind, initialDatasetTs,
              dirExists, canCreate, mkdirPending, call, csv, pager>>

\* Mutant of Construct: the id that was not given is stored as 0.
ConstructUnsetIdZero ==
  /\ constructed = "no"
  /\ IF params.layerId = Undefined /\ params.tableId = Undefined
     THEN /\ constructed' = BothUndefinedError
          /\ UNCHANGED <<layerId, tableId, hasChangesets, hasSpatialInformation>>
     ELSE IF params.layerId # Undefined /\ params.tableId # Undefined
     THEN /\ constructed' = BothAssignedError
          /\ UNCHANGED <<layerId, tableId, hasChangesets, hasSpatialInformation>>
     ELSE /\ constructed' = "yes"
          /\ layerId' = (IF params.layerId # Undefined THEN params.layerId[1] ELSE 0)
          /\ tableId' = (IF params.tableId # Undefined THEN params.tableId[1] ELSE 0)
          /\ hasChangesets' = (IF params.hasChangesets = Undefined THEN FALSE
                               ELSE params.hasChangesets[1])
          /\ hasSpatialInformation' = (IF params.hasSpatialInformation = Undefined THEN FALSE
                                       ELSE params.hasSpatialInformation[1])
  /\ UNCHANGED <<fileVars, params, requests, http>>

\* constructor(params)
Construct ==
  /\ constructed = "no"
  /\ IF params.layerId = Undefined /\ params.tableId = Undefined
     THEN /\ constructed' = BothUndefinedError
          /\ UNCHANGED <<layerId, tableId, hasChangesets, hasSpatialInformation>>
     ELSE IF params.layerId # Undefined /\ params.tableId # Undefined
     THEN /\ constructed' = BothAssignedError
          /\ UNCHANGED <<layerId, tableId, hasChangesets, hasSpatialInformation>>
     ELSE /\ constructed' = "yes"
          /\ layerId' = (IF params.layerId # Undefined THEN params.layerId[1] ELSE -1)
          /\ tableId' = (IF params.tableId # Undefined THEN params.tableId[1] ELSE -1)
          /\ hasChangesets' = (IF params.hasChangesets = Undefined THEN FALSE
                               ELSE params.hasChangesets[1])
          /\ hasSpatialInformation' = (IF params.hasSpatialInformation = Undefined THEN FALSE
                                       ELSE params.hasSpatialInformation[1])
  /\ UNCHANGED <<fileVars, params, requests, http>>

\* datasetId()
datasetId == IF tableId > 0 THEN <<"table", tableId>> ELSE <<"layer", layerId>>

\* What a method does up to its first await: it throws, or it issues one
\* fetch of an endpoint.
NoEndpoint == [service |-> "", resource |-> "", id |-> <<"", 0>>]
Throw(msg, arg) == [throws |-> TRUE, error |-> <<msg, arg>>, endpoint |-> NoEndpoint]
Fetch(service, resource, id) ==
  [throws |-> FALSE, error |-> <<"", "">>,
   endpoint |-> [service |-> service, resource |-> resource, id |-> id]]

getWfsLayerCapabilitiesXml  == Fetch("wfs", "GetCapabilities", datasetId)
getWmtsLayerCapabilitiesXml == Fetch("wmts", "WMTSCapabilities.xml", <<"layer", layerId>>)
getAllWfsCapabilitiesXml    == Fetch("wfs", "GetCapabilities", <<"", 0>>)
getAllWmtsCapabilitiesXml   == Fetch("wmts", "WMTSCapabilities.xml", <<"", 0>>)

\* The Json variants await the Xml variant and parse its text.
getWfsLayerCapabilitiesJson  == getWfsLayerCapabilitiesXml
getWmtsLayerCapabilitiesJson == getWmtsLayerCapabilitiesXml
getAllWfsCapabilitiesJson    == getAllWfsCapabilitiesXml
getAllWmtsCapabilitiesJson   == getAllWmtsCapabilitiesXml

\* Mutant of getLayerCapabilitiesJson: the two cases of the switch both go
\* to the WFS endpoint.
getLayerCapabilitiesJsonWfsTwice ==
  CASE apiKind = WFS  -> getWfsLayerCapabilitiesJson
    [] apiKind = WMTS -> getWfsLayerCapabilitiesJson
    [] OTHER          -> Throw(UnsupportedKindError, apiKind)

getLayerCapabilitiesJson ==
  CASE apiKind = WFS  -> getWfsLayerCapabilitiesJson
    [] apiKind = WMTS -> getWmtsLayerCapabilitiesJson
    [] OTHER          -> Throw(UnsupportedKindError, apiKind)

getLayerCapabilitiesXml ==
  CASE apiKind = WFS  -> getWfsLayerCapabilitiesXml
    [] apiKind = WMTS -> getWmtsLayerCapabilitiesXml
    [] OTHER          -> Throw(UnsupportedKindError, apiKind)

getAllCapabilitiesJson ==
  CASE apiKind = WFS  -> getAllWfsCapabilitiesJson
    [] apiKind = WMTS -> getAllWmtsCapabilitiesJson
    [] OTHER          -> Throw(UnsupportedKindError, apiKind)

getAllCapabilitiesXml ==
  CASE apiKind = WFS  -> getAllWfsCapabilitiesXml
    [] apiKind = WMTS -> getAllWmtsCapabilitiesXml
    [] OTHER          -> Throw(UnsupportedKindError, apiKind)

\* Mutant of getWfsChangesets: the apiKind check is left out.
getWfsChangesetsNoKindCheck ==
  IF ~hasChangesets THEN Throw(NoChangesetsError, DatasetName)
  ELSE Fetch("wfs", "GetFeature changeset", datasetId)

getWfsChangesets ==
  IF ~hasChangesets THEN Throw(NoChangesetsError, DatasetName)
  ELSE IF apiKind # WFS THEN Throw(ChangesetsWfsOnlyError, "")
  ELSE Fetch("wfs", "GetFeature changeset", datasetId)

queryWfsSpatialApiJson ==
  IF apiKind # WFS THEN Throw(WfsMethodError, "")
  ELSE IF ~hasSpatialInformation THEN Throw(NoSpatialError, "")
  ELSE Fetch("query", "vector.json", <<"layer", layerId>>)

queryWfsSpatialApiXml ==
  IF apiKind # WFS THEN Throw(WfsMethodError, "")
  ELSE IF ~hasSpatialInformation THEN Throw(NoSpatialError, "")
  ELSE Fetch("query", "vector.xml", <<"layer", layerId>>)

queryWmtsSpatialApiJson ==
  IF apiKind # WMTS THEN Throw(WmtsMethodError, "")
  ELSE IF ~hasSpatialInformation THEN Throw(NoSpatialError, "")
  ELSE Fetch("query", "raster.json", <<"layer", layerId>>)

\* Mutant of queryXyzTileServiceApi: the apiKind check is left out.
queryXyzTileServiceApiNoKindCheck == Fetch("tiles", "png", <<"layer", layerId>>)

queryXyzTileServiceApi ==
  IF apiKind # WMTS THEN Throw(WmtsMethodError, "")
  ELSE Fetch("tiles", "png", <<"layer", layerId>>)

\* A call of method, whose code up to the first await does entry.
Invoke(method, entry) ==
  /\ alive
  /\ constructed = "yes"
  /\ http.pc = "idle"
  /\ IF entry.throws
     THEN /\ http' = [method |-> method, pc |-> "done", outcome |-> "rejected",
                      error |-> entry.error]
          /\ UNCHANGED requests
     ELSE /\ http' = [method |-> method, pc |-> "fetch", outcome |-> "pending",
                      error |-> <<"", "">>]
          /\ requests' = Append(requests, entry.endpoint)
  /\ UNCHANGED <<fileVars, objectVars>>

CallGetLayerCapabilitiesJson == Invoke("getLayerCapabilitiesJson", getLayerCapabilitiesJson)
CallGetLayerCapabilitiesXml  == Invoke("getLayerCapabilitiesXml", getLayerCapabilitiesXml)
CallGetAllCapabilitiesJson   == Invoke("getAllCapabilitiesJson", getAllCapabilitiesJson)
CallGetAllCapabilitiesXml    == Invoke("getAllCapabilitiesXml", getAllCapabilitiesXml)
CallGetWfsChangesets         == Invoke("getWfsChangesets", getWfsChangesets)
CallQueryWfsSpatialApiJson   == Invoke("queryWfsSpatialApiJson", queryWfsSpatialApiJson)
CallQueryWfsSpatialApiXml    == Invoke("queryWfsSpatialApiXml", queryWfsSpatialApiXml)
CallQueryWmtsSpatialApiJson  == Invoke("queryWmtsSpatialApiJson", queryWmtsSpatialApiJson)
CallQueryXyzTileServiceApi   == Invoke("queryXyzTileServiceApi", queryXyzTileServiceApi)

\* await fetch(endpoint): the response arrives, or the request fails.
FetchReturned(ok) ==
  /\ alive
  /\ http.pc = "fetch"
  /\ http' = IF ok THEN [http EXCEPT !.pc = "body"]
             ELSE [http EXCEPT !.pc = "done", !.outcome = "rejected",
                               !.error = <<FetchError, "">>]
  /\ UNCHANGED <<fileVars, objectVars, requests>>

\* await resp.text() / resp.json() / resp.arrayBuffer(), and parseXml in
\* the Json variants: the method returns, or the body cannot be read.
ResponseRead(ok) ==
  /\ alive
  /\ http.pc = "body"
  /\ http' = IF ok THEN [http EXCEPT !.pc = "done", !.outcome = "resolved"]
             ELSE [http EXCEPT !.pc = "done", !.outcome = "rejected",
                               !.error = <<BodyError, "">>]
  /\ UNCHANGED <<fileVars, objectVars, requests>>

\* ------------------------------------------------------------------------
\* SpecApi: a dataset constructed from any parameters, and one call of a
\* method that queries the services
\* ------------------------------------------------------------------------
IdParams == {Undefined, Given(0), Given(7)}
FlagParams == {Undefined, Given(FALSE), Given(TRUE)}

InitApi ==
  /\ file = DatasetFile
  /\ fileName = GoodName
  /\ diskLines = Len(file)
  /\ ioFaulty = FALSE
  /\ alive = TRUE
  /\ uncaught = 0
  /\ reader = [c \in ReaderCalls |-> IdleReader]
  /\ apiKind \in {WFS, WMTS, OtherKind}
  /\ initialDatasetTs = "ts"
  /\ dirExists = TRUE
  /\ canCreate = TRUE
  /\ mkdirPending = FALSE
  /\ call = [c \in Calls |-> IdleCall]
  /\ csv = NoCsv
  /\ params \in [layerId : IdParams, tableId : IdParams,
                 hasChangesets : FlagParams, hasSpatialInformation : FlagParams]
  /\ constructed = "no"
  /\ layerId = -1
  /\ tableId = -1
  /\ hasChangesets = FALSE
  /\ hasSpatialInformation = FALSE
  /\ requests = << >>
  /\ http = IdleHttp
  /\ pager = IdlePager

NextApi ==
  \/ Construct
  \/ CallGetLayerCapabilitiesJson
  \/ CallGetLayerCapabilitiesXml
  \/ CallGetAllCapabilitiesJson
  \/ CallGetAllCapabilitiesXml
  \/ CallGetWfsChangesets
  \/ CallQueryWfsSpatialApiJson
  \/ CallQueryWfsSpatialApiXml
  \/ CallQueryWmtsSpatialApiJson
  \/ CallQueryXyzTileServiceApi
  \/ \E ok \in BOOLEAN : FetchReturned(ok)
  \/ \E ok \in BOOLEAN : ResponseRead(ok)

SpecApi == InitApi /\ [][NextApi]_vars

\* ------------------------------------------------------------------------
\* Claims about the methods that query the services (under SpecApi)
\* ------------------------------------------------------------------------
Called(method) == http.method = method
ThrewWithoutRequest(msg, arg) ==
  /\ http.outcome = "rejected"
  /\ http.error = <<msg, arg>>
  /\ requests = << >>

\* C15: getWfsChangesets throws, without issuing any HTTP request, when the
\* dataset was constructed with hasChangesets false or undefined, and also
\* when the dataset's apiKind is not WFS; a request is issued only when
\* hasChangesets is true and apiKind is WFS.
C15_ChangesetsGuarded ==
  Called("getWfsChangesets") =>
    /\ params.hasChangesets \in {Undefined, Given(FALSE)} =>
         ThrewWithoutRequest(NoChangesetsError, DatasetName)
    /\ (params.hasChangesets = Given(TRUE) /\ apiKind # WFS) =>
         ThrewWithoutRequest(ChangesetsWfsOnlyError, "")
    /\ requests # << >> => (params.hasChangesets = Given(TRUE) /\ apiKind = WFS)
    /\ (params.hasChangesets = Given(TRUE) /\ apiKind = WFS) => Len(requests) = 1

C15_Witness ==
  /\ Called("getWfsChangesets")
  /\ params.hasChangesets = Given(TRUE)
  /\ apiKind = WMTS
  /\ ThrewWithoutRequest(ChangesetsWfsOnlyError, "")

RequiredKind(method) ==
  IF method \in {"queryWfsSpatialApiJson", "queryWfsSpatialApiXml"} THEN WFS ELSE WMTS

KindMethods == {"queryWfsSpatialApiJson", "queryWfsSpatialApiXml",
                "queryWmtsSpatialApiJson", "queryXyzTileServiceApi"}

\* C16: each kind-specific query method throws before issuing any HTTP
\* request when the dataset's apiKind is not the kind the method requires:
\* WFS for queryWfsSpatialApiJson and queryWfsSpatialApiXml, WMTS for
\* queryWmtsSpatialApiJson and queryXyzTileServiceApi.
C16_KindChecked ==
  \A m \in KindMethods :
    (Called(m) /\ apiKind # RequiredKind(m)) =>
      ThrewWithoutRequest(IF RequiredKind(m) = WFS THEN WfsMethodError
                          ELSE WmtsMethodError, "")

C16_Witness ==
  /\ Called("queryXyzTileServiceApi")
  /\ apiKind = WFS
  /\ ThrewWithoutRequest(WmtsMethodError, "")

CapabilitiesMethods == {"getLayerCapabilitiesXml", "getLayerCapabilitiesJson",
                        "getAllCapabilitiesXml", "getAllCapabilitiesJson"}

\* C17: getLayerCapabilitiesXml, getLayerCapabilitiesJson,
\* getAllCapabilitiesXml and getAllCapabilitiesJson each issue exactly one
\* HTTP request, to the WFS endpoint when the dataset's apiKind is WFS and
\* to the WMTS endpoint when it is WMTS; any other apiKind raises
\* 'Unsupported API kind' with no request.
C17_OneCapabilitiesRequest ==
  \A m \in CapabilitiesMethods :
    Called(m) =>
      /\ apiKind = WFS =>
           (Len(requests) = 1 /\ requests[1].service = "wfs")
      /\ apiKind = WMTS =>
           (Len(requests) = 1 /\ requests[1].service = "wmts")
      /\ apiKind \notin {WFS, WMTS} =>
           ThrewWithoutRequest(UnsupportedKindError, apiKind)

C17_Witness ==
  /\ Called("getLayerCapabilitiesJson")
  /\ apiKind = WMTS
  /\ http.outcome = "resolved"
  /\ Len(requests) = 1
  /\ requests[1] = [service |-> "wmts", resource |-> "WMTSCapabilities.xml",
                    id |-> <<"layer", layerId>>]

\* ------------------------------------------------------------------------
\* SpecWait: one call of a public method, with every callback that is
\* ready to run eventually run
\* ------------------------------------------------------------------------
NextWait ==
  \/ \E start \in DatasetStarts, batch \in DatasetBatches :
       CallGetInitialDatasetInBatch(1, start, batch)
  \/ CallGetInitialDatasetCount(1)
  \/ MkdirDone
  \/ FetchSettled(1)
  \/ BodyRead(1)
  \/ WriteStreamOpened(1)
  \/ WriteStreamWritten(1)
  \/ StatSettled(1)
  \/ \E d \in {PollInterval, FILE_WRITE_TIMEOUT} : Tick(d)
  \/ Woken(1)
  \/ StartRead(1)
  \/ StreamOpened(1)
  \/ LineEvent(1)
  \/ EndEvent(1)

\* Node's event loop runs every callback that is ready and fires every
\* timer that is due: the file-system operations complete, the stat
\* settles, time passes and the sleeper is woken.
WaitFairness ==
  /\ WF_vars(MkdirDone)
  /\ WF_vars(WriteStreamOpened(1))
  /\ WF_vars(StatSettled(1))
  /\ WF_vars(\E d \in {PollInterval, FILE_WRITE_TIMEOUT} : Tick(d))
  /\ WF_vars(Woken(1))

SpecWait == InitDataset /\ [][NextWait]_vars /\ WaitFairness

InWaitForFile(c) == call[c].pc \in {"stat", "sleep", "loop"}

\* waitForFile returns "Found" at a step in which its stat settles with the
\* file there, and every such step returns "Found".
FoundOnlyOnStat(c) ==
  /\ (call[c].waitResult # "Found" /\ call'[c].waitResult = "Found") =>
       (call[c].pc = "stat" /\ diskLines >= 0)
  /\ (call[c].pc = "stat" /\ call'[c].pc # "stat" /\ diskLines >= 0) =>
       call'[c].waitResult = "Found"

\* A stat is issued on entry or after a sleep, and a sleep that follows a
\* failed stat lasts for the poll interval at least.
SleepsBetweenStats(c) ==
  /\ (call[c].pc # "stat" /\ call'[c].pc = "stat") =>
       (call[c].pc = "body" \/ (call[c].pc = "loop" /\ call[c].polls > 0))
  /\ (call[c].pc = "stat" /\ call'[c].pc # "stat" /\ diskLines < 0) =>
       call'[c].pc = "sleep"
  /\ (call[c].pc = "sleep" /\ call'[c].pc # "sleep") =>
       /\ call'[c].pc = "loop"
       /\ call'[c].elapsed >= Min(call[c].elapsed + PollInterval, FILE_WRITE_TIMEOUT)

\* C18: waitForFile always terminates; it returns "Found" only after a stat
\* of the file has succeeded, and null only after the timeout has elapsed
\* without a successful stat; after each failed stat it waits for the poll
\* interval before the next attempt.
C18_WaitForFileTerminates ==
  /\ \A c \in Calls : InWaitForFile(c) ~> (~InWaitForFile(c) \/ ~alive)
  /\ [][\A c \in Calls : FoundOnlyOnStat(c) /\ SleepsBetweenStats(c)]_vars
  /\ [](\A c \in Calls : call[c].waitResult = "null" =>
                           call[c].elapsed >= FILE_WRITE_TIMEOUT)

C18_Witness ==
  \E c \in Calls :
    /\ call[c].waitResult = "null"
    /\ call[c].polls >= 1
    /\ call[c].elapsed >= FILE_WRITE_TIMEOUT
    /\ diskLines = -1

\* ------------------------------------------------------------------------
\* Claims continued: the download and the read that follows it
\* ------------------------------------------------------------------------
Downloaded(c) == call[c].ws # "none"

\* C19: when getInitialDatasetInBatch or getInitialDatasetCount has to
\* download the dataset, the read of ./datasets/<initialDataset> begins
\* only after every downloaded byte has been written to the file: the
\* reader never observes a file that exists but is still empty or partly
\* written.
C19_ReadAfterDownloadWritten ==
  \A c \in Calls :
    Downloaded(c) =>
      /\ call[c].fileAtRead # -2 => call[c].fileAtRead = Len(file)
      /\ reader[c].stream = "flowing" => diskLines = Len(file)

\* ------------------------------------------------------------------------
\* SpecPaging: a caller that reads a file window after window, with
\* readCSVInBatches(file, 0, b), readCSVInBatches(file, b, b), ... up to
\* the first empty result
\* ------------------------------------------------------------------------
InitPaging ==
  /\ file \in Files
  /\ fileName = GoodName
  /\ diskLines = Len(file)
  /\ ioFaulty = FALSE
  /\ alive = TRUE
  /\ uncaught = 0
  /\ reader = [c \in ReaderCalls |-> IdleReader]
  /\ apiKind = WFS
  /\ initialDatasetTs = "ts"
  /\ dirExists = TRUE
  /\ canCreate = TRUE
  /\ mkdirPending = FALSE
  /\ call = [c \in Calls |-> IdleCall]
  /\ csv = NoCsv
  /\ params = [layerId |-> Given(1), tableId |-> Undefined,
               hasChangesets |-> Undefined, hasSpatialInformation |-> Undefined]
  /\ constructed = "yes"
  /\ layerId = 1
  /\ tableId = -1
  /\ hasChangesets = FALSE
  /\ hasSpatialInformation = FALSE
  /\ requests = << >>
  /\ http = IdleHttp
  /\ \E b \in Batches : pager = [IdlePager EXCEPT !.batch = b]

\* The next window is asked for.
PageCall ==
  /\ ~pager.done
  /\ CallReadCSVInBatches(1, pager.next, pager.batch)

\* The promise of the window has resolved: its records are appended, and
\* the caller stops at an empty window.
PageReturned ==
  /\ alive
  /\ reader[1].promise = "resolved"
  /\ pager' = [pager EXCEPT !.acc = @ \o reader[1].records,
                            !.next = @ + pager.batch,
                            !.pages = @ + 1,
                            !.done = (reader[1].records = << >>)]
  /\ reader' = [reader EXCEPT ![1] = IdleReader]
  /\ UNCHANGED <<readerEnv, alive, uncaught, apiKind, initialDatasetTs, dirExists,
                 canCreate, mkdirPending, call, csv, objectVars, requests, http>>

NextPaging ==
  \/ PageCall
  \/ PageReturned
  \/ StreamOpened(1)
  \/ LineEvent(1)
  \/ EndEvent(1)

SpecPaging == InitPaging /\ [][NextPaging]_vars

\* The records of all data lines of f, in file order.
AllRecords(f) == WindowRecords(f, 0, TotalRecords(f))

\* C20: for every file and every batch size b in 1..100000, the
\* concatenation of readCSVInBatches(file, 0, b), readCSVInBatches(file, b,
\* b), ... up to the first empty result equals the records of all data
\* lines in file order: consecutive windows neither skip nor repeat a
\* record.
C20_WindowsCoverFile ==
  pager.done => pager.acc = AllRecords(file)

\* ------------------------------------------------------------------------
\* Claims continued: getRecordCount against readCSVInBatches (under
\* SpecRepeat, where both are called on the same file)
\* ------------------------------------------------------------------------
\* Call c is a readCSVInBatches from the start of the file with a batch at
\* least as large as the number of its lines, and has resolved.
ReadsWholeFile(c) ==
  /\ reader[c].op = "read"
  /\ reader[c].promise = "resolved"
  /\ reader[c].start = 0
  /\ reader[c].batch >= Len(file)

\* C21: for every file, the value returned by getRecordCount equals the
\* number of records readCSVInBatches returns for start = 0 and a batch at
\* least as large as the number of lines of the file, also for files that
\* contain empty lines.
C21_CountAgreesWithRead ==
  \A c, d \in ReaderCalls :
    (reader[c].op = "count" /\ reader[c].promise = "resolved" /\ ReadsWholeFile(d)) =>
      reader[c].value = Len(reader[d].records)

\* ------------------------------------------------------------------------
\* Claims continued: the checks of getInitialDatasetInBatch (under SpecWait)
\* ------------------------------------------------------------------------
RejectedBeforeIO(c, msg) ==
  /\ Outcome(c) = "rejected"
  /\ call[c].error = msg
  /\ NoIO(c)

getLayerId == layerId
getTableId == tableId
getHasChangesets == hasChangesets
getHasSpatialInformation == hasSpatialInformation

LayerGiven == params.layerId # Undefined
TableGiven == params.tableId # Undefined

\* C23: the constructor accepts its parameters only when exactly one of
\* layerId and tableId is given: it throws when both are undefined and when
\* both are defined; after a successful construction the id that was not
\* given reads as -1 from its getter, the given id reads back unchanged,
\* and hasChangesets and hasSpatialInformation read as false when they
\* were not given.
C23_ExactlyOneId ==
  constructed # "no" =>
    /\ (~LayerGiven /\ ~TableGiven) => constructed = BothUndefinedError
    /\ (LayerGiven /\ TableGiven) => constructed = BothAssignedError
    /\ (LayerGiven # TableGiven) =>
         /\ constructed = "yes"
         /\ getLayerId = (IF LayerGiven THEN params.layerId[1] ELSE -1)
         /\ getTableId = (IF TableGiven THEN params.tableId[1] ELSE -1)
         /\ params.hasChangesets = Undefined => getHasChangesets = FALSE
         /\ params.hasSpatialInformation = Undefined => getHasSpatialInformation = FALSE

C23_Witness ==
  /\ constructed = "yes"
  /\ params.layerId = Undefined
  /\ params.tableId = Given(7)
  /\ params.hasChangesets = Undefined
  /\ getLayerId = -1
  /\ getTableId = 7
  /\ getHasChangesets = FALSE

\* The id the caller supplied, as datasetId() should name it.
SuppliedId ==
  IF TableGiven THEN <<"table", params.tableId[1]>> ELSE <<"layer", params.layerId[1]>>

\* C24: for every dataset accepted by the constructor, datasetId() names
\* the id that was supplied, table-<tableId> when tableId was given and
\* layer-<layerId> when layerId was given, for every value of that id
\* (including 0), so the WFS capabilities and changeset endpoints never
\* contain the placeholder id -1.
C24_DatasetIdNamesSuppliedId ==
  constructed = "yes" =>
    /\ datasetId = SuppliedId
    /\ \A i \in 1..Len(requests) :
         requests[i].service = "wfs" => requests[i].id[2] # -1

====
